---- MODULE Spec2Model ----
(***************************************************************************)
(* Steady-state valve and pump models of Fuel_Depot (valve/valve.py and    *)
(* pump/pump.py).  Python floats are modelled as exact rationals <<n, d>>  *)
(* in lowest terms with d > 0; integers stay integers.  A call's outcome   *)
(* (value returned or exception raised) is recorded in the variable last.  *)
(***************************************************************************)
EXTENDS Integers, Sequences, FiniteSets, TLC

(***************************************************************************)
(* Rational arithmetic: the float operators the code uses (product,        *)
(* quotient, sum, difference, math.pow, math.sqrt, comparisons).           *)
(***************************************************************************)
Abs(x) == IF x < 0 THEN -x ELSE x

RECURSIVE GCD(_, _)
GCD(a, b) == IF b = 0 THEN a ELSE GCD(b, a % b)

Norm(n, d) ==
    LET g == GCD(Abs(n), Abs(d))
        s == IF d < 0 THEN -1 ELSE 1
    IN  <<(s * n) \div g, (s * d) \div g>>

R(n) == <<n, 1>>
RZero == R(0)
ROne == R(1)
RMul(a, b) == Norm(a[1] * b[1], a[2] * b[2])
RDiv(a, b) == Norm(a[1] * b[2], a[2] * b[1])
RAdd(a, b) == Norm(a[1] * b[2] + b[1] * a[2], a[2] * b[2])
RSub(a, b) == Norm(a[1] * b[2] - b[1] * a[2], a[2] * b[2])
RLe(a, b) == a[1] * b[2] <= b[1] * a[2]
RLt(a, b) == a[1] * b[2] < b[1] * a[2]
RIsZero(a) == a[1] = 0

RECURSIVE RPow(_, _)
RPow(a, k) == IF k = 0 THEN ROne ELSE RMul(a, RPow(a, k - 1))

RECURSIVE ISqrtB(_, _, _)
ISqrtB(n, lo, hi) ==
    IF lo >= hi THEN lo
    ELSE LET mid == (lo + hi + 1) \div 2
         IN  IF mid * mid <= n THEN ISqrtB(n, mid, hi) ELSE ISqrtB(n, lo, mid - 1)

ISqrt(n) == ISqrtB(n, 0, IF n < 46340 THEN n ELSE 46340)
IsSquare(n) == ISqrt(n) * ISqrt(n) = n

\* math.sqrt on a non-negative value: exact on a rational square, otherwise
\* rounded down to two decimals (the float result is rounded too).
RSqrt(a) ==
    IF IsSquare(a[1]) /\ IsSquare(a[2])
    THEN Norm(ISqrt(a[1]), ISqrt(a[2]))
    ELSE Norm(ISqrt((a[1] * 10000) \div a[2]), 100)

(***************************************************************************)
(* Python values passed as arguments, and call outcomes.                   *)
(***************************************************************************)
IntV(n) == [t |-> "int", v |-> R(n)]
FloatV(n, d) == [t |-> "float", v |-> Norm(n, d)]

NoMsg == ""
Returned(t, s, v) == [out |-> "return", t |-> t, s |-> s, v |-> v]
RetNone == Returned("None", NoMsg, RZero)
RetStr(s) == Returned("str", s, RZero)
RetNum(v) == Returned("number", NoMsg, v)
Raised(exc, s) == [out |-> "raise", t |-> exc, s |-> s, v |-> RZero]

Call(op, args, res) == [op |-> op, args |-> args, res |-> res]

VARIABLES
    cls,             \* class of the valve instance
    position,        \* Valve.position
    Cv,              \* Valve.Cv
    flow_in,         \* Valve.flow_in
    deltaP,          \* Valve.deltaP
    flow_out,        \* Valve.flow_out
    setpoint_open,   \* Valve.setpoint_open
    setpoint_close,  \* Valve.setpoint_close
    press_out,       \* Valve.press_out
    press_in,        \* Valve.press_in
    demo,            \* positions seen along the documented relief sequence
    last,            \* the last call on the instance and its outcome
    pcls,            \* class of the pump instance
    speed,           \* Pump.speed
    flow_rate,       \* Pump.flow_rate
    outlet_pressure, \* Pump.outlet_pressure
    hp,              \* Pump.hp
    wattage,         \* Pump.wattage
    displacement,    \* Pump.displacement
    hp_coeff,        \* Pump.hp_coeff
    power,           \* CentrifPump.power, set by adjust_speed
    scratch          \* CentrifPump.n1, n2, V1, Hp1, P1, set by pump_laws

valvevars == <<cls, position, Cv, flow_in, deltaP, flow_out, setpoint_open,
               setpoint_close, press_out, press_in, demo>>
pumpvars == <<pcls, speed, flow_rate, outlet_pressure, hp, wattage,
              displacement, hp_coeff, power, scratch>>
vars == <<valvevars, pumpvars, last>>

hydraulics == <<Cv, flow_in, deltaP, flow_out, press_out, press_in>>
setpoints == <<setpoint_open, setpoint_close>>

(***************************************************************************)
(* Inputs.                                                                 *)
(***************************************************************************)
ValveClasses == {"Valve", "Gate", "Globe", "Relief"}
InitPositions == {0, 50, 100}
InitCoeffs == {R(0), R(2)}
InitFlows == {R(0), R(50)}
InitDrops == {R(0), R(4)}
InitSetpoints == {<<0, 0>>, <<150, 125>>}
InitPressIn == {R(0), R(30)}

PositionArgs == {IntV(-5), IntV(0), IntV(50), IntV(100), IntV(150),
                 FloatV(25, 2), FloatV(100, 1)}
Pressures == {120, 125, 130, 140, 150, 155}
SetpointArgs == {125, 150}
FlowArgs == {R(0), R(3), R(75)}
GravArgs == {R(1), R(4)}
CoeffArgs == {R(0), R(-2)}
DropArgs == {R(0), R(-1), R(9)}
SysGravArgs == {R(1), R(4), R(0), R(-1)}
DiameterArgs == {R(0), R(1)}

\* The documented relief sequence: setpoints <<open, close>>, the pressures
\* fed in order, and the positions expected after each.
DemoSetpoints == <<150, 125>>
DemoPressures == <<150, 140, 125, 130>>
DemoPositions == <<100, 100, 0, 0>>

\* Attributes an instance does not have yet.
Unset == [set |-> FALSE, v |-> RZero]
Attr(v) == [set |-> TRUE, v |-> v]
NoScratch == [set |-> FALSE, n1 |-> 0, n2 |-> 0, V1 |-> RZero, Hp1 |-> RZero,
              P1 |-> RZero]

\* No pump is under test.
NoPump ==
    /\ pcls = "none"
    /\ speed = 0
    /\ flow_rate = RZero
    /\ outlet_pressure = RZero
    /\ hp = RZero
    /\ wattage = RZero
    /\ displacement = RZero
    /\ hp_coeff = RZero
    /\ power = Unset
    /\ scratch = NoScratch

\* Valve.__init__
Init ==
    /\ NoPump
    /\ cls \in ValveClasses
    /\ position \in InitPositions
    /\ Cv \in InitCoeffs
    /\ flow_in \in InitFlows
    /\ deltaP \in InitDrops
    /\ flow_out = RZero
    /\ \E sp \in InitSetpoints : setpoint_open = sp[1] /\ setpoint_close = sp[2]
    /\ press_out = RZero
    /\ press_in \in InitPressIn
    /\ demo = <<>>
    /\ last = Call("__init__", <<>>, RetNone)

(***************************************************************************)
(* Valve: the generic class.                                               *)
(***************************************************************************)
\* Valve.change_position: the new position and the value returned.
change_position(pos, new_position) ==
    IF new_position.t # "int"
    THEN [position |-> pos, ret |-> RetStr("Integer values only.")]
    ELSE [position |-> new_position.v[1], ret |-> RetNone]

\* Mutant: a zero coefficient gives a drop of zero.
press_drop_default(cv, dp, f, spec_grav) ==
    IF RIsZero(cv)
    THEN [deltaP |-> RZero, ret |-> RetNum(RZero)]
    ELSE LET x == RDiv(f, cv)
             v == RMul(RPow(x, 2), spec_grav)
         IN  [deltaP |-> v, ret |-> RetNum(v)]

\* Valve.press_drop: the new deltaP and the value returned.
press_drop(cv, dp, f, spec_grav) ==
    IF RIsZero(cv)
    THEN [deltaP |-> dp, ret |-> RetStr("The valve coefficient must be > 0.")]
    ELSE LET x == RDiv(f, cv)
             v == RMul(RPow(x, 2), spec_grav)
         IN  [deltaP |-> v, ret |-> RetNum(v)]

\* Mutant: the coefficient is multiplied by the root instead of divided by it.
sys_flow_rate_product(fo, flow_coeff, drop, spec_grav) ==
    IF RLe(flow_coeff, RZero) \/ RLe(drop, RZero)
    THEN [flow_out |-> fo, ret |-> Raised("ValueError", "Input values must be > 0.")]
    ELSE LET x == RDiv(spec_grav, drop)
         IN  IF RLt(x, RZero)
             THEN [flow_out |-> fo, ret |-> Raised("ValueError", "math domain error")]
             ELSE [flow_out |-> RMul(flow_coeff, RSqrt(x)), ret |-> RetNone]

\* Mutant: the arguments are rejected only when both are out of range.
sys_flow_rate_both(fo, flow_coeff, drop, spec_grav) ==
    IF RLe(flow_coeff, RZero) /\ RLe(drop, RZero)
    THEN [flow_out |-> fo, ret |-> Raised("ValueError", "Input values must be > 0.")]
    ELSE IF RIsZero(drop)
    THEN [flow_out |-> fo, ret |-> Raised("ZeroDivisionError", "float division by zero")]
    ELSE LET x == RDiv(spec_grav, drop)
         IN  IF RLt(x, RZero)
             THEN [flow_out |-> fo, ret |-> Raised("ValueError", "math domain error")]
             ELSE IF RIsZero(x)
             THEN [flow_out |-> fo, ret |-> Raised("ZeroDivisionError", "float division by zero")]
             ELSE [flow_out |-> RDiv(flow_coeff, RSqrt(x)), ret |-> RetNone]

\* Valve.sys_flow_rate: the new flow_out and the outcome.
sys_flow_rate(fo, flow_coeff, drop, spec_grav) ==
    IF RLe(flow_coeff, RZero) \/ RLe(drop, RZero)
    THEN [flow_out |-> fo, ret |-> Raised("ValueError", "Input values must be > 0.")]
    ELSE LET x == RDiv(spec_grav, drop)
         IN  IF RLt(x, RZero)
             THEN [flow_out |-> fo, ret |-> Raised("ValueError", "math domain error")]
             ELSE IF RIsZero(x)
             THEN [flow_out |-> fo, ret |-> Raised("ZeroDivisionError", "float division by zero")]
             ELSE [flow_out |-> RDiv(flow_coeff, RSqrt(x)), ret |-> RetNone]

ChangePosition(new_position) ==
    LET r == change_position(position, new_position)
    IN  /\ position' = r.position
        /\ last' = Call("change_position", <<new_position>>, r.ret)
        /\ demo' = <<>>
        /\ UNCHANGED <<cls, hydraulics, setpoints, pumpvars>>

Open ==
    /\ position' = change_position(position, IntV(100)).position
    /\ last' = Call("open", <<>>, RetNone)
    /\ demo' = <<>>
    /\ UNCHANGED <<cls, hydraulics, setpoints, pumpvars>>

Close ==
    /\ position' = change_position(position, IntV(0)).position
    /\ last' = Call("close", <<>>, RetNone)
    /\ demo' = <<>>
    /\ UNCHANGED <<cls, hydraulics, setpoints, pumpvars>>

CalcCoeff(diameter) ==
    /\ Cv' = RMul(R(15), RPow(diameter, 2))
    /\ last' = Call("calc_coeff", <<diameter>>, RetNone)
    /\ demo' = <<>>
    /\ UNCHANGED <<cls, position, flow_in, deltaP, flow_out, press_out, press_in,
                   setpoints, pumpvars>>

PressDrop(f, spec_grav) ==
    LET r == press_drop(Cv, deltaP, f, spec_grav)
    IN  /\ deltaP' = r.deltaP
        /\ last' = Call("press_drop", <<f, spec_grav>>, r.ret)
        /\ demo' = <<>>
        /\ UNCHANGED <<cls, position, Cv, flow_in, flow_out, press_out, press_in,
                       setpoints, pumpvars>>

SysFlowRate(flow_coeff, drop, spec_grav) ==
    LET r == sys_flow_rate(flow_out, flow_coeff, drop, spec_grav)
    IN  /\ flow_out' = r.flow_out
        /\ last' = Call("sys_flow_rate", <<flow_coeff, drop, spec_grav>>, r.ret)
        /\ demo' = <<>>
        /\ UNCHANGED <<cls, position, Cv, flow_in, deltaP, press_out, press_in,
                       setpoints, pumpvars>>

GetPress(p) ==
    /\ press_out' = RSub(p, deltaP)
    /\ last' = Call("get_press", <<p>>, RetNum(press_out'))
    /\ demo' = <<>>
    /\ UNCHANGED <<cls, position, Cv, flow_in, deltaP, flow_out, press_in,
                   setpoints, pumpvars>>

(***************************************************************************)
(* Gate, Globe and Relief.                                                 *)
(***************************************************************************)
\* Mutant: every target is passed on to change_position.
GateTurnHandleAny(new_position) ==
    /\ cls = "Gate"
    /\ position' = change_position(position, new_position).position
    /\ last' = Call("turn_handle", <<new_position>>, RetNone)
    /\ demo' = <<>>
    /\ UNCHANGED <<cls, hydraulics, setpoints, pumpvars>>

\* Gate.turn_handle
GateTurnHandle(new_position) ==
    /\ cls = "Gate"
    /\ IF new_position.v = R(0)
       THEN /\ position' = change_position(position, IntV(0)).position
            /\ last' = Call("turn_handle", <<new_position>>, RetNone)
       ELSE IF new_position.v = R(100)
       THEN /\ position' = change_position(position, IntV(100)).position
            /\ last' = Call("turn_handle", <<new_position>>, RetNone)
       ELSE /\ position' = position
            /\ last' = Call("turn_handle", <<new_position>>,
                            RetStr("Warning: Invalid valve position."))
    /\ demo' = <<>>
    /\ UNCHANGED <<cls, hydraulics, setpoints, pumpvars>>

\* Globe.turn_handle
GlobeTurnHandle(new_position) ==
    /\ cls = "Globe"
    /\ position' = change_position(position, new_position).position
    /\ IF position' = 0
       THEN /\ flow_out' = RZero
            /\ deltaP' = RZero
       ELSE /\ flow_out' = RAdd(flow_in, RDiv(RMul(flow_in, R(position')), R(100)))
            /\ deltaP' = press_drop(Cv, deltaP, flow_out', ROne).deltaP
    /\ last' = Call("turn_handle", <<new_position>>, RetNone)
    /\ demo' = <<>>
    /\ UNCHANGED <<cls, Cv, flow_in, press_out, press_in, setpoints, pumpvars>>

\* Mutant: the open setpoint is written to both setpoints.
SetOpenPressureBoth(open_set) ==
    /\ cls = "Relief"
    /\ setpoint_open' = open_set
    /\ setpoint_close' = open_set
    /\ last' = Call("set_open_pressure", <<R(open_set)>>, RetNone)
    /\ demo' = <<>>
    /\ UNCHANGED <<cls, position, hydraulics, pumpvars>>

\* Relief.set_open_pressure
SetOpenPressure(open_set) ==
    /\ cls = "Relief"
    /\ setpoint_open' = open_set
    /\ last' = Call("set_open_pressure", <<R(open_set)>>, RetNone)
    /\ demo' = <<>>
    /\ UNCHANGED <<cls, position, hydraulics, setpoint_close, pumpvars>>

\* Relief.set_blowdown
SetBlowdown(close_set) ==
    /\ cls = "Relief"
    /\ setpoint_close' = close_set
    /\ last' = Call("set_blowdown", <<R(close_set)>>, RetNone)
    /\ demo' = <<>>
    /\ UNCHANGED <<cls, position, hydraulics, setpoint_open, pumpvars>>

\* Mutant: the open test is strict.
valve_operation_strict(pos, p, open_set, close_set) ==
    IF p > open_set THEN change_position(pos, IntV(100)).position
    ELSE IF p <= close_set THEN change_position(pos, IntV(0)).position
    ELSE pos

\* Mutant: the close test comes first.
valve_operation_close_first(pos, p, open_set, close_set) ==
    IF p <= close_set THEN change_position(pos, IntV(0)).position
    ELSE IF p >= open_set THEN change_position(pos, IntV(100)).position
    ELSE pos

\* Position after Relief.valve_operation.
valve_operation(pos, p, open_set, close_set) ==
    IF p >= open_set THEN change_position(pos, IntV(100)).position
    ELSE IF p <= close_set THEN change_position(pos, IntV(0)).position
    ELSE pos

\* The positions observed so far along DemoPressures, fed in that order to a
\* relief valve whose setpoints are DemoSetpoints.
Observe(seen, p, pos, open_set, close_set) ==
    IF <<open_set, close_set>> # DemoSetpoints THEN <<>>
    ELSE IF Len(seen) < Len(DemoPressures) /\ p = DemoPressures[Len(seen) + 1]
    THEN Append(seen, pos)
    ELSE IF p = DemoPressures[1] THEN <<pos>>
    ELSE <<>>

\* Relief.valve_operation
ValveOperation(p) ==
    /\ cls = "Relief"
    /\ position' = valve_operation(position, p, setpoint_open, setpoint_close)
    /\ last' = Call("valve_operation", <<R(p)>>, RetNone)
    /\ demo' = Observe(demo, p, position', setpoint_open, setpoint_close)
    /\ UNCHANGED <<cls, hydraulics, setpoints, pumpvars>>

\* Calls that set or move the valve.
Next ==
    \/ \E np \in PositionArgs : ChangePosition(np)
    \/ Open
    \/ Close
    \/ \E np \in PositionArgs : GateTurnHandle(np)
    \/ \E np \in PositionArgs : GlobeTurnHandle(np)
    \/ \E p \in SetpointArgs : SetOpenPressure(p)
    \/ \E p \in SetpointArgs : SetBlowdown(p)
    \/ \E p \in Pressures : ValveOperation(p)
    \/ GetPress(press_in)

Spec == Init /\ [][Next]_vars

IsEvaluate(c) == c.op = "valve_operation"
PressureOf(c) == c.args[1][1]

\* C1: Relief.valve_operation follows the hysteresis rule for every pressure
\* and every prior position: at or above the open setpoint the position
\* becomes 100, otherwise at or below the close setpoint it becomes 0,
\* otherwise it is left as it was; the documented sequence 150, 140, 125, 130
\* under setpoints 150/125 gives OPEN, OPEN, CLOSED, CLOSED; and from 0 or 100
\* an evaluate call never gives an intermediate position.
C1_ReliefHysteresis ==
    /\ [][IsEvaluate(last') =>
            position' = IF PressureOf(last') >= setpoint_open THEN 100
                        ELSE IF PressureOf(last') <= setpoint_close THEN 0
                        ELSE position]_vars
    /\ [](Len(demo) = Len(DemoPressures) => demo = DemoPositions)
    /\ [][IsEvaluate(last') /\ position \in {0, 100} => position' \in {0, 100}]_vars

\* C1 witness: the whole documented sequence has been fed to the valve.
C1_Witness ==
    /\ cls = "Relief"
    /\ IsEvaluate(last)
    /\ Len(demo) = Len(DemoPressures)
    /\ position = 0

\* C2: the position of any valve is always within 0..100; a value outside
\* that range given to set_position does not become the position.
C2_PositionInRange == position \in 0..100

IsTurn(c, k) == c.op = "turn_handle" /\ cls = k
TargetOf(c) == c.args[1]

\* C9: after Globe.turn_handle with an integer target, position 0 gives
\* flow_out = 0 and deltaP = 0; any other position gives
\* flow_out = flow_in * (1 + position/100) and deltaP = (flow_out / Cv)^2.
C9_GlobeRefresh ==
    IsTurn(last, "Globe") /\ TargetOf(last).t = "int" =>
        IF position = 0
        THEN flow_out = RZero /\ deltaP = RZero
        ELSE /\ flow_out = RMul(flow_in, RAdd(ROne, Norm(position, 100)))
             /\ ~RIsZero(Cv)
             /\ deltaP = RPow(RDiv(flow_out, Cv), 2)

\* C10: Gate.turn_handle with target 0 sets position 0, with target 100 sets
\* position 100, and with any other target returns a warning and leaves every
\* field unchanged; a gate valve at 0 or 100 driven through turn_handle, open
\* and close is never at an intermediate position.
C10_GateOperate ==
    /\ [][IsTurn(last', "Gate") =>
            IF TargetOf(last').v = R(0) THEN position' = 0
            ELSE IF TargetOf(last').v = R(100) THEN position' = 100
            ELSE /\ last'.res = RetStr("Warning: Invalid valve position.")
                 /\ UNCHANGED <<position, hydraulics, setpoints>>]_vars
    /\ [][/\ cls = "Gate"
          /\ position \in {0, 100}
          /\ last'.op \in {"turn_handle", "open", "close"}
          => position' \in {0, 100}]_vars

\* C10 witness: an open gate valve has rejected an intermediate target.
C10_Witness ==
    /\ IsTurn(last, "Gate")
    /\ TargetOf(last) = IntV(50)
    /\ last.res.t = "str"
    /\ position = 100

\* A call reports a failure to its caller: it raises, or returns a message.
Rejected(res) == res.out = "raise" \/ res.t = "str"

\* C11: a non-integer position given to change_position, directly or through
\* Globe.turn_handle, is rejected with a failure that reaches the caller, and
\* position, flow_out and deltaP are left unchanged.
C11_NonIntegerRejected ==
    [][(last'.op = "change_position" \/ IsTurn(last', "Globe"))
       /\ TargetOf(last').t # "int" =>
         /\ Rejected(last'.res)
         /\ UNCHANGED <<position, flow_out, deltaP>>]_vars

\* C13: Relief.valve_operation changes nothing but position;
\* set_open_pressure changes setpoint_open only and set_blowdown changes
\* setpoint_close only, and neither changes position.
C13_ReliefFrame ==
    [][/\ IsEvaluate(last') => UNCHANGED <<hydraulics, setpoints>>
       /\ last'.op = "set_open_pressure" =>
            /\ setpoint_open' = last'.args[1][1]
            /\ UNCHANGED <<position, hydraulics, setpoint_close>>
       /\ last'.op = "set_blowdown" =>
            /\ setpoint_close' = last'.args[1][1]
            /\ UNCHANGED <<position, hydraulics, setpoint_open>>]_vars

\* C13 witness: an open relief valve with flow and a pressure drop has had
\* its open setpoint moved away from its close setpoint.
C13_Witness ==
    /\ cls = "Relief"
    /\ last.op = "set_open_pressure"
    /\ setpoint_open # setpoint_close
    /\ setpoint_close # 0
    /\ position = 100
    /\ ~RIsZero(deltaP) /\ ~RIsZero(flow_in)

\* C14: after Globe.turn_handle the stored outlet pressure is the inlet
\* pressure minus the pressure drop.
C14_GlobeOutletPressure ==
    IsTurn(last, "Globe") => press_out = RSub(press_in, deltaP)

\* C16: with setpoint_close >= setpoint_open, Relief.valve_operation always
\* sets the position, to 100 when the pressure is at or above the open
\* setpoint (also when it is at or below the close setpoint) and to 0
\* otherwise, whatever the prior position.
C16_NoDeadband ==
    [][IsEvaluate(last') /\ setpoint_close >= setpoint_open =>
         position' = IF PressureOf(last') >= setpoint_open THEN 100 ELSE 0]_vars

\* C16 witness: under inverted setpoints a pressure between them has opened
\* the valve.
C16_Witness ==
    /\ cls = "Relief"
    /\ IsEvaluate(last)
    /\ setpoint_close > setpoint_open
    /\ PressureOf(last) > setpoint_open
    /\ PressureOf(last) < setpoint_close
    /\ position = 100

\* Valve.__init__ with the defaults, but for the coefficient and the drop.
InitFormulas ==
    /\ NoPump
    /\ cls = "Valve"
    /\ position = 0
    /\ Cv \in InitCoeffs
    /\ flow_in = RZero
    /\ deltaP \in InitDrops
    /\ flow_out = RZero
    /\ setpoint_open = 0
    /\ setpoint_close = 0
    /\ press_out = RZero
    /\ press_in = RZero
    /\ demo = <<>>
    /\ last = Call("__init__", <<>>, RetNone)

\* Calls of the pressure and flow formulas.
NextFormulas ==
    \/ \E d \in DiameterArgs : CalcCoeff(d)
    \/ \E f \in FlowArgs, g \in GravArgs : PressDrop(f, g)
    \/ \E c \in CoeffArgs \cup {Cv}, d \in DropArgs \cup {deltaP}, g \in SysGravArgs :
          SysFlowRate(c, d, g)

SpecFormulas == InitFormulas /\ [][NextFormulas]_vars

(***************************************************************************)
(* Pumps.                                                                  *)
(***************************************************************************)
MaxSpeed == 3
PumpClasses == {"CentrifPump", "PositiveDisplacement"}
InitSpeeds == {0, 1, 2}
InitFlowRates == {R(0), R(75)}
InitPressOut == {R(0), Norm(15, 2)}
InitHp == {R(0), R(1)}
InitDisplacement == {R(0), Norm(1, 20)}
InitHpCoeff == {R(0), Norm(1, 2)}
SpeedArgs == {IntV(n) : n \in 0..MaxSpeed} \cup {IntV(-10), FloatV(25, 2)}

\* Pump.hp_to_watts: hp * 745.699872
WattsPerHp == Norm(745699872, 1000000)
hp_to_watts(h) == RMul(h, WattsPerHp)

\* No valve is under test.
NoValve ==
    /\ cls = "none"
    /\ position = 0
    /\ Cv = RZero
    /\ flow_in = RZero
    /\ deltaP = RZero
    /\ flow_out = RZero
    /\ setpoint_open = 0
    /\ setpoint_close = 0
    /\ press_out = RZero
    /\ press_in = RZero
    /\ demo = <<>>

\* Pump.__init__
InitPump ==
    /\ NoValve
    /\ pcls \in PumpClasses
    /\ speed \in InitSpeeds
    /\ flow_rate \in InitFlowRates
    /\ outlet_pressure \in InitPressOut
    /\ hp \in InitHp
    /\ displacement \in InitDisplacement
    /\ hp_coeff \in InitHpCoeff
    /\ wattage = hp_to_watts(hp)
    /\ power = Unset
    /\ scratch = NoScratch
    /\ last = Call("__init__", <<>>, RetNone)

\* Mutant: a negative speed is let through.
set_speed_unsigned(new_speed) ==
    IF new_speed.t # "int" THEN Raised("TypeError", "Integer values only.")
    ELSE RetNum(new_speed.v)

\* Pump.set_speed: the speed returned, or the exception raised.
set_speed(new_speed) ==
    IF new_speed.t # "int" THEN Raised("TypeError", "Integer values only.")
    ELSE IF new_speed.v[1] < 0 THEN Raised("ValueError", "Speed must be 0 or greater.")
    ELSE RetNum(new_speed.v)

\* Mutant: the power law is applied with the square of the speed ratio.
affinity_square(n2, n1, V1, Hp1, P1) ==
    LET ratio == RDiv(R(n2), R(n1))
        newhp == RMul(P1, RPow(ratio, 2))
    IN  [speed |-> n2,
         flow_rate |-> RMul(V1, ratio),
         outlet_pressure |-> RMul(Hp1, RPow(ratio, 2)),
         hp |-> newhp,
         wattage |-> hp_to_watts(newhp)]

\* The affinity laws of CentrifPump.pump_laws, for n1 # 0: the new fields
\* from the speed n1, flow V1, pressure Hp1 and power P1 saved beforehand.
affinity(n2, n1, V1, Hp1, P1) ==
    LET ratio == RDiv(R(n2), R(n1))
        newhp == RMul(P1, RPow(ratio, 3))
    IN  [speed |-> n2,
         flow_rate |-> RMul(V1, ratio),
         outlet_pressure |-> RMul(Hp1, RPow(ratio, 2)),
         hp |-> newhp,
         wattage |-> hp_to_watts(newhp)]

\* The fields saved by pump_laws before it scales them.
Saved(n1, n2, V1, Hp1, P1) ==
    [set |-> TRUE, n1 |-> n1, n2 |-> n2, V1 |-> V1, Hp1 |-> Hp1, P1 |-> P1]

\* Mutant: a stopped pump is restarted at the requested speed instead of
\* failing on the division.
pump_laws_restart(new_speed, n1, V1, Hp1, P1, w, sc) ==
    LET n2 == set_speed(new_speed)
        same == [speed |-> n1, flow_rate |-> V1, outlet_pressure |-> Hp1,
                 hp |-> P1, wattage |-> w]
    IN  IF n2.out = "raise" THEN same @@ [scratch |-> sc, res |-> n2]
        ELSE IF n1 = 0
        THEN [same EXCEPT !.speed = n2.v[1]]
             @@ [scratch |-> Saved(n1, n2.v[1], V1, Hp1, P1),
                 res |-> Returned("tuple", NoMsg, RZero)]
        ELSE affinity(n2.v[1], n1, V1, Hp1, P1)
             @@ [scratch |-> Saved(n1, n2.v[1], V1, Hp1, P1),
                 res |-> Returned("tuple", NoMsg, RZero)]

\* CentrifPump.pump_laws on a pump at speed n1 with flow V1, pressure Hp1,
\* power P1 and wattage w: the fields as the call leaves them, and its outcome.
pump_laws(new_speed, n1, V1, Hp1, P1, w, sc) ==
    LET n2 == set_speed(new_speed)
        same == [speed |-> n1, flow_rate |-> V1, outlet_pressure |-> Hp1,
                 hp |-> P1, wattage |-> w]
    IN  IF n2.out = "raise" THEN same @@ [scratch |-> sc, res |-> n2]
        ELSE IF n1 = 0
        THEN same @@ [scratch |-> Saved(n1, n2.v[1], V1, Hp1, P1),
                      res |-> Raised("ZeroDivisionError", "division by zero")]
        ELSE affinity(n2.v[1], n1, V1, Hp1, P1)
             @@ [scratch |-> Saved(n1, n2.v[1], V1, Hp1, P1),
                 res |-> Returned("tuple", NoMsg, RZero)]

\* CentrifPump.adjust_speed
CentrifAdjustSpeed(new_speed) ==
    /\ pcls = "CentrifPump"
    /\ LET r == pump_laws(new_speed, speed, flow_rate, outlet_pressure, hp, wattage,
                          scratch)
       IN  /\ speed' = r.speed
           /\ flow_rate' = r.flow_rate
           /\ outlet_pressure' = r.outlet_pressure
           /\ hp' = r.hp
           /\ wattage' = r.wattage
           /\ scratch' = r.scratch
           /\ power' = IF r.res.out = "raise" THEN power ELSE Attr(r.wattage)
           /\ last' = Call("adjust_speed", <<new_speed>>,
                           IF r.res.out = "raise" THEN r.res ELSE RetNone)
    /\ UNCHANGED <<pcls, displacement, hp_coeff, valvevars>>

\* Mutant: flow and power are scaled by the ratio to the prior speed.
PDAdjustSpeedRatio(new_speed) ==
    /\ pcls = "PositiveDisplacement"
    /\ LET n == set_speed(new_speed)
       IN  IF n.out = "raise"
           THEN /\ last' = Call("adjust_speed", <<new_speed>>, n)
                /\ UNCHANGED <<speed, flow_rate, hp, wattage>>
           ELSE /\ speed' = n.v[1]
                /\ flow_rate' = IF speed = 0 THEN RMul(R(speed'), displacement)
                                ELSE RMul(flow_rate, Norm(speed', speed))
                /\ hp' = IF speed = 0 THEN RMul(R(speed'), hp_coeff)
                         ELSE RMul(hp, Norm(speed', speed))
                /\ wattage' = hp_to_watts(hp')
                /\ last' = Call("adjust_speed", <<new_speed>>,
                                Returned("tuple", NoMsg, RZero))
    /\ UNCHANGED <<pcls, outlet_pressure, displacement, hp_coeff, power, scratch,
                   valvevars>>

\* PositiveDisplacement.adjust_speed
PDAdjustSpeed(new_speed) ==
    /\ pcls = "PositiveDisplacement"
    /\ LET n == set_speed(new_speed)
       IN  IF n.out = "raise"
           THEN /\ last' = Call("adjust_speed", <<new_speed>>, n)
                /\ UNCHANGED <<speed, flow_rate, hp, wattage>>
           ELSE /\ speed' = n.v[1]
                /\ flow_rate' = RMul(R(speed'), displacement)
                /\ hp' = RMul(R(speed'), hp_coeff)
                /\ wattage' = hp_to_watts(hp')
                /\ last' = Call("adjust_speed", <<new_speed>>,
                                Returned("tuple", NoMsg, RZero))
    /\ UNCHANGED <<pcls, outlet_pressure, displacement, hp_coeff, power, scratch,
                   valvevars>>

\* PositiveDisplacement.set_hp_coeff
SetHpCoeff ==
    /\ pcls = "PositiveDisplacement"
    /\ IF speed = 0
       THEN /\ hp_coeff' = hp_coeff
            /\ last' = Call("set_hp_coeff", <<>>,
                            Raised("ZeroDivisionError", "float division by zero"))
       ELSE /\ hp_coeff' = RDiv(hp, R(speed))
            /\ last' = Call("set_hp_coeff", <<>>, RetNum(hp_coeff'))
    /\ UNCHANGED <<pcls, speed, flow_rate, outlet_pressure, hp, wattage, displacement,
                   power, scratch, valvevars>>

\* Pump.cls_read_power
ReadPower ==
    /\ pcls \in PumpClasses
    /\ wattage' = hp_to_watts(hp)
    /\ last' = Call("cls_read_power", <<>>, RetNum(wattage'))
    /\ UNCHANGED <<pcls, speed, flow_rate, outlet_pressure, hp, displacement, hp_coeff,
                   power, scratch, valvevars>>

NextPump ==
    \/ \E n \in SpeedArgs : CentrifAdjustSpeed(n)
    \/ \E n \in SpeedArgs : PDAdjustSpeed(n)
    \/ SetHpCoeff
    \/ ReadPower

SpecPump == InitPump /\ [][NextPump]_vars

IsAdjust(c, k) == c.op = "adjust_speed" /\ pcls = k
SpeedOf(c) == c.args[1]
ValidSpeed(a) == a.t = "int" /\ a.v[1] >= 0
pumpfields == <<speed, flow_rate, outlet_pressure, hp, wattage>>

\* C3: CentrifPump.adjust_speed with a valid new speed on a pump whose speed
\* is above 0 scales the values held before the call: flow by the speed
\* ratio, outlet pressure by its square, shaft power by its cube; the speed
\* becomes the new speed and the wattage is the new power times 745.699872.
C3_AffinityLaws ==
    [][IsAdjust(last', "CentrifPump") /\ ValidSpeed(SpeedOf(last')) /\ speed > 0 =>
         LET k == RDiv(SpeedOf(last').v, R(speed))
         IN  /\ last'.res.out = "return"
             /\ flow_rate' = RMul(flow_rate, k)
             /\ outlet_pressure' = RMul(outlet_pressure, RMul(k, k))
             /\ hp' = RMul(hp, RMul(k, RMul(k, k)))
             /\ speed' = SpeedOf(last').v[1]
             /\ wattage' = RMul(hp', Norm(745699872, 1000000))]_vars

\* C3 witness: a running pump with flow, pressure and power has been moved to
\* another non-zero speed.
C3_Witness ==
    /\ IsAdjust(last, "CentrifPump")
    /\ last.res.out = "return"
    /\ scratch.n1 # scratch.n2
    /\ speed > 0
    /\ ~RIsZero(flow_rate) /\ ~RIsZero(outlet_pressure) /\ ~RIsZero(hp)

C6_SpeedValidation ==
    /\ [][last'.op = "adjust_speed" =>
            /\ (SpeedOf(last').t # "int" =>
                  /\ last'.res = Raised("TypeError", "Integer values only.")
                  /\ UNCHANGED pumpfields)
            /\ (SpeedOf(last').t = "int" /\ SpeedOf(last').v[1] < 0 =>
                  /\ last'.res = Raised("ValueError", "Speed must be 0 or greater.")
                  /\ UNCHANGED pumpfields)
            /\ (SpeedOf(last') = IntV(0) =>
                  last'.res.t \notin {"TypeError", "ValueError"})]_vars
    /\ [](speed \in Nat)

\* C6 witness: a running pump has rejected a negative speed.
C6_Witness ==
    /\ last.op = "adjust_speed"
    /\ last.res.t = "ValueError"
    /\ speed > 0
    /\ ~RIsZero(flow_rate)

IsPressDrop(c) == c.op = "press_drop"
FlowOf(c) == c.args[1]
GravOf(c) == c.args[2]

IsRoundTrip(c, d) ==
    /\ IsPressDrop(c)
    /\ RLt(RZero, Cv)
    /\ GravOf(c) = ROne
    /\ d.op = "sys_flow_rate"
    /\ d.args = <<Cv, deltaP, ROne>>

\* C8 as stated: for every Cv > 0 and every flow >= 0, press_drop(flow)
\* followed by sys_flow_rate(Cv, deltaP) succeeds and leaves flow_out equal to
\* the flow.
C8_RoundTripFromZero ==
    [][IsRoundTrip(last, last') /\ RLe(RZero, FlowOf(last)) =>
         last'.res.out = "return" /\ flow_out' = FlowOf(last)]_vars

\* C8 amended: for every Cv > 0 and every flow > 0 the round trip succeeds
\* and leaves flow_out equal to the flow; for flow = 0 the drop is 0 and
\* sys_flow_rate raises ValueError, leaving flow_out unchanged.
C8_RoundTrip ==
    [][IsRoundTrip(last, last') =>
         /\ RLt(RZero, FlowOf(last)) =>
              last'.res.out = "return" /\ flow_out' = FlowOf(last)
         /\ RIsZero(FlowOf(last)) =>
              /\ RIsZero(deltaP)
              /\ last'.res = Raised("ValueError", "Input values must be > 0.")
              /\ flow_out' = flow_out]_vars

\* C8 witness: sys_flow_rate(Cv, deltaP) has returned the flow whose drop
\* deltaP is, on a valve whose coefficient is not 1.
C8_Witness ==
    /\ last.op = "sys_flow_rate"
    /\ last.args = <<Cv, deltaP, ROne>>
    /\ last.res.out = "return"
    /\ RLt(ROne, Cv)
    /\ flow_out \in FlowArgs
    /\ deltaP = RPow(RDiv(flow_out, Cv), 2)

IsSysFlow(c) == c.op = "sys_flow_rate"
allbutflowout == <<cls, position, Cv, flow_in, deltaP, press_out, press_in, setpoints>>

\* C12 as stated: sys_flow_rate raises ValueError whenever flow_coeff <= 0 or
\* press_drop <= 0, leaving flow_out unchanged; whenever both are > 0 it
\* succeeds and sets flow_out = flow_coeff / sqrt(spec_grav / press_drop),
\* touching no other field.
C12_FlowFromDropAnyGravity ==
    [][IsSysFlow(last') =>
         LET c == last'.args[1]
             d == last'.args[2]
             g == last'.args[3]
         IN  /\ UNCHANGED allbutflowout
             /\ IF RLe(c, RZero) \/ RLe(d, RZero)
                THEN /\ last'.res = Raised("ValueError", "Input values must be > 0.")
                     /\ flow_out' = flow_out
                ELSE /\ last'.res.out = "return"
                     /\ RLt(RZero, g) => flow_out' = RDiv(c, RSqrt(RDiv(g, d)))]_vars

\* C12 amended: as stated, but success is claimed only for spec_grav > 0; with
\* flow_coeff > 0, press_drop > 0 and spec_grav <= 0 the call raises
\* (ZeroDivisionError at 0, ValueError below 0) and leaves flow_out unchanged.
C12_FlowFromDrop ==
    [][IsSysFlow(last') =>
         LET c == last'.args[1]
             d == last'.args[2]
             g == last'.args[3]
         IN  /\ UNCHANGED allbutflowout
             /\ IF RLe(c, RZero) \/ RLe(d, RZero)
                THEN /\ last'.res = Raised("ValueError", "Input values must be > 0.")
                     /\ flow_out' = flow_out
                ELSE IF RLt(RZero, g)
                THEN /\ last'.res.out = "return"
                     /\ flow_out' = RDiv(c, RSqrt(RDiv(g, d)))
                ELSE /\ last'.res.out = "raise"
                     /\ last'.res.t = IF RIsZero(g) THEN "ZeroDivisionError"
                                      ELSE "ValueError"
                     /\ flow_out' = flow_out]_vars

\* C12 witness: a call with a coefficient, a drop and a specific gravity
\* other than 1 has set flow_out, on a valve whose own drop is another value.
C12_Witness ==
    /\ IsSysFlow(last)
    /\ last.res.out = "return"
    /\ last.args[3] = R(4)
    /\ last.args[2] = R(9)
    /\ deltaP # R(9)
    /\ flow_out = RMul(Cv, Norm(3, 2))
    /\ ~RIsZero(flow_out)

====
